---- MODULE Spec2Model ----
(***************************************************************************)
(* One run of the Streamlit script app.py: the script loads a record table *)
(* (a CSV), resolves which column names the country, reads the sidebar     *)
(* controls, aggregates the records per country (count, optional           *)
(* per-million rate, normalised metric, threshold flag) and renders the    *)
(* tabs.  Streamlit runs the script from top to bottom on every            *)
(* interaction; st.stop() and an uncaught exception end the run.           *)
(*                                                                         *)
(* pandas' float64 cells are modelled as exact rationals extended with     *)
(* NaN and the two infinities, [k, n, d]: k = "num" is n/d in lowest terms *)
(* with d > 0, k = "inf" is +inf (n = 1) or -inf (n = -1), k = "nan" is    *)
(* NaN.  A null string cell is the CSV token "NaN".                        *)
(***************************************************************************)
EXTENDS Integers, Sequences, FiniteSets, TLC

VARIABLES pc, df, country_col, status_col, status_vals, selected_status,
          per_million, thr, country_count, metric, maxv, rendered, error

vars == <<pc, df, country_col, status_col, status_vals, selected_status,
          per_million, thr, country_count, metric, maxv, rendered, error>>

(* ------------------------------ bounds -------------------------------- *)

\* longest record table (rows) the Load step draws
MaxRows == 2

\* longest header (columns) of the header-only tables the Load step draws
MaxCols == 3

(* ------------------------- program constants -------------------------- *)

\* 1_000_000 of count / (population / 1_000_000)
Million == 1000000

\* the slider's upper end 0.999 and its step 0.001, in thousandths
ThrMax == 999

ThrDen == 1000

possible_country_cols == <<"Country", "country", "COUNTRY", "name", "Name">>

\* Python's None, and a null (missing) string cell of the CSV
None == "None"

NULL == "NaN"

(* --------------------------- float64 cells ---------------------------- *)

NaN == [k |-> "nan", n |-> 0, d |-> 1]

Inf == [k |-> "inf", n |-> 1, d |-> 1]

NegInf == [k |-> "inf", n |-> -1, d |-> 1]

Abs(x) == IF x < 0 THEN -x ELSE x

Sign(x) == IF x < 0 THEN -1 ELSE 1

RECURSIVE GCD(_, _)
GCD(a, b) == IF b = 0 THEN a ELSE GCD(b, a % b)

\* the float n/d (d # 0), in lowest terms with a positive denominator
Num(n, d) ==
    LET g == GCD(Abs(n), Abs(d))
    IN  [k |-> "num", n |-> Sign(d) * (n \div g), d |-> Abs(d) \div g]

Whole(i) == Num(i, 1)

IsNaN(a) == a.k = "nan"

\* n/d < n'/d' for two finite values: by their integer parts, then by their
\* fractional parts (the cross products stay small)
RatLt(a, b) ==
    LET fa == a.n \div a.d
        fb == b.n \div b.d
    IN  \/ fa < fb
        \/ fa = fb /\ (a.n % a.d) * b.d < (b.n % b.d) * a.d

\* a < b of IEEE 754: false when either side is NaN
FLt(a, b) ==
    /\ ~IsNaN(a)
    /\ ~IsNaN(b)
    /\ \/ a = NegInf /\ b # NegInf
       \/ b = Inf /\ a # Inf
       \/ a.k = "num" /\ b.k = "num" /\ RatLt(a, b)

FGt(a, b) == FLt(b, a)

\* a >= b of IEEE 754: false when either side is NaN
FGe(a, b) == ~IsNaN(a) /\ ~IsNaN(b) /\ ~FLt(a, b)

\* a / b of IEEE 754 as numpy computes it (no exception; a zero divisor is +0.0)
FDiv(a, b) ==
    IF IsNaN(a) \/ IsNaN(b) THEN NaN
    ELSE IF b.k = "inf"
         THEN IF a.k = "inf" THEN NaN ELSE Whole(0)
    ELSE IF a.k = "inf"
         THEN IF a.n * Sign(b.n) > 0 THEN Inf ELSE NegInf
    ELSE IF b.n = 0
         THEN IF a.n = 0 THEN NaN ELSE IF a.n > 0 THEN Inf ELSE NegInf
    ELSE Num(a.n * b.d, a.d * b.n)

\* Series.fillna(0)
FillNa0(a) == IF IsNaN(a) THEN Whole(0) ELSE a

\* Series.max(): NaN entries are skipped; NaN when nothing is left
RECURSIVE SeriesMax(_)
SeriesMax(s) ==
    IF s = <<>> THEN NaN
    ELSE LET m == SeriesMax(Tail(s))
         IN  IF IsNaN(Head(s)) THEN m
             ELSE IF IsNaN(m) THEN Head(s)
             ELSE IF FLt(Head(s), m) THEN m ELSE Head(s)

(* ------------------------------ inputs -------------------------------- *)

\* the values a country cell takes, in ascending (Python string) order, and null
CountryOrder == <<"Japan", "USA">>

\* the value a status cell takes (ascending order, were there several), and null
StatusOrder == <<"Active">>

Range(s) == {s[i] : i \in DOMAIN s}

CountryVals == Range(CountryOrder) \cup {NULL}

StatusVals == Range(StatusOrder) \cup {NULL}

\* population cells: missing, negative, zero and two positive values
PopVals == {NaN, Whole(-1), Whole(0), Whole(1), Whole(2)}

\* slider positions tried, in thousandths: both ends and the middle
Thresholds == {0, 500, ThrMax}

ColumnNames == Range(possible_country_cols) \cup {"id", "status", "population"}

\* the sequences without repetition over S of length at most n
RECURSIVE Headers(_, _)
Headers(S, n) ==
    IF n = 0 THEN {<<>>}
    ELSE LET shorter == Headers(S, n - 1)
         IN  shorter \cup {Append(h, c) : h \in shorter, c \in S}

HeaderSeqs == {h \in Headers(ColumnNames, MaxCols) :
                  \A i, j \in DOMAIN h : h[i] = h[j] => i = j}

\* the headers of the tables that carry rows: a country column named
\* "Country" or "name", then optionally status and population
Schemas ==
    {<<"Country">> \o rest :
        rest \in {<<>>, <<"status">>, <<"population">>, <<"status", "population">>}}
    \cup {<<"name">>, <<"name", "status">>, <<"name", "population">>}

CellsOf(c) ==
    IF c = "status" THEN StatusVals
    ELSE IF c = "population" THEN PopVals
    ELSE CountryVals

\* the rows (column -> cell) of a table with header cols
RECURSIVE RowsOf(_)
RowsOf(cols) ==
    IF cols = <<>> THEN {<<>>}
    ELSE {(Head(cols) :> v) @@ r : v \in CellsOf(Head(cols)), r \in RowsOf(Tail(cols))}

\* the tables with header h and n rows
TablesOf(h, n) == {[cols |-> h, rows |-> r] : r \in [1..n -> RowsOf(h)]}

NoTable == [cols |-> <<>>, rows |-> <<>>]

NoError == [kind |-> "none", columns |-> <<>>]

(* -------------------------- the script's steps ------------------------- *)

\* next((c for c in possible_country_cols if c in df.columns), None)
RECURSIVE FirstIn(_, _)
FirstIn(cands, cols) ==
    IF cands = <<>> THEN None
    ELSE IF Head(cands) \in Range(cols) THEN Head(cands)
    ELSE FirstIn(Tail(cands), cols)

\* the first column of the table that is a candidate (the table's order decides)
RECURSIVE FirstCandidate(_)
FirstCandidate(cols) ==
    IF cols = <<>> THEN None
    ELSE IF Head(cols) \in Range(possible_country_cols) THEN Head(cols)
    ELSE FirstCandidate(Tail(cols))

CountryColByTableOrder(cols) == FirstCandidate(cols)

CountryCol(cols) == FirstIn(possible_country_cols, cols)

\* "status" if "status" in df.columns else None
StatusCol(cols) == IF "status" \in Range(cols) THEN "status" ELSE None

\* ["All"] + sorted(df[status_col].dropna().unique().tolist())
StatusValsOf(d, scol) ==
    IF scol = None THEN <<"All">>
    ELSE <<"All">> \o SelectSeq(StatusOrder,
                                LAMBDA s : \E i \in DOMAIN d.rows : d.rows[i][scol] = s)

\* work_df: df, or its rows whose status equals the selected one
WorkDf(d, scol, sel) ==
    IF scol # None /\ sel # "All"
    THEN SelectSeq(d.rows, LAMBDA r : r[scol] = sel)
    ELSE d.rows

CountOf(rows, ccol, c) == Cardinality({i \in DOMAIN rows : rows[i][ccol] = c})

\* work_df.groupby(country_col, as_index=False).size().rename(...): one row per
\* non-null key with at least one row, keys ascending (dropna and sort default)
GroupSize(rows, ccol) ==
    LET keys == SelectSeq(CountryOrder, LAMBDA c : CountOf(rows, ccol, c) > 0)
    IN  [i \in DOMAIN keys |-> [Country |-> keys[i], count |-> CountOf(rows, ccol, keys[i])]]

\* DataFrame.drop_duplicates(): the first occurrence of every row is kept
RECURSIVE DropDuplicates(_)
DropDuplicates(s) ==
    IF s = <<>> THEN <<>>
    ELSE LET init == DropDuplicates(SubSeq(s, 1, Len(s) - 1))
             last == s[Len(s)]
         IN  IF \E j \in DOMAIN init : init[j] = last THEN init ELSE Append(init, last)

\* df[["Country","population"]].drop_duplicates()
PopDf(d) ==
    DropDuplicates([i \in DOMAIN d.rows |->
                       [Country |-> d.rows[i]["Country"],
                        population |-> d.rows[i]["population"]]])

\* country_count.merge(pop_df, on="Country", how="left"): left order kept, one
\* output row per matching right row, a null population when none matches
RECURSIVE MergeLeft(_, _)
MergeLeft(left, right) ==
    IF left = <<>> THEN <<>>
    ELSE LET l == Head(left)
             matches == SelectSeq(right, LAMBDA p : p.Country = l.Country)
             joined == IF matches = <<>>
                       THEN <<[Country |-> l.Country, count |-> l.count, population |-> NaN]>>
                       ELSE [i \in DOMAIN matches |->
                                [Country |-> l.Country, count |-> l.count,
                                 population |-> matches[i].population]]
         IN  joined \o MergeLeft(Tail(left), right)

\* country_count["count"] / (country_count["population"] / 1_000_000)
PerMillion(count, population) == FDiv(Whole(count), FDiv(population, Whole(Million)))

\* per_million and "population" in df.columns
UsePopulation(d, pm) == pm /\ "population" \in Range(d.cols)

\* df[["Country","population"]] raises KeyError when df has no "Country" column
RaisesKeyError(d, pm) == UsePopulation(d, pm) /\ "Country" \notin Range(d.cols)

\* country_count after line 93: the groupby result, joined to the
\* population and given per_million when the per-capita branch runs
WithMetric(d, ccol, scol, sel, pm) ==
    LET grouped == GroupSize(WorkDf(d, scol, sel), ccol)
    IN  IF UsePopulation(d, pm)
        THEN LET merged == MergeLeft(grouped, PopDf(d))
             IN  [i \in DOMAIN merged |->
                     [Country |-> merged[i].Country, count |-> merged[i].count,
                      population |-> merged[i].population,
                      per_million |-> PerMillion(merged[i].count, merged[i].population)]]
        ELSE grouped

\* the active metric's column of a row, as a float
MetricOf(row, m) == IF m = "per_million" THEN row.per_million ELSE Whole(row.count)

\* country_count[metric].fillna(0)
Filled(rows, m) == [i \in DOMAIN rows |-> FillNa0(MetricOf(rows[i], m))]

\* if maxv > 0: metric_norm / maxv, else metric_norm as filled
MetricNorm(x, mx) == IF FGt(mx, Whole(0)) THEN FDiv(x, mx) ELSE x

\* a strict comparison in place of >=
AboveThrStrict(norm, t) == FGt(norm, Num(t, ThrDen))

\* country_count["metric_norm"] >= thr
AboveThr(norm, t) == FGe(norm, Num(t, ThrDen))

\* lines 96-100: the rows with metric_norm and above_thr added
Normalised(rows, m, t) ==
    LET filled == Filled(rows, m)
        mx == SeriesMax(filled)
    IN  [i \in DOMAIN rows |->
            LET norm == MetricNorm(filled[i], mx)
            IN  IF m = "per_million"
                THEN [Country |-> rows[i].Country, count |-> rows[i].count,
                      population |-> rows[i].population,
                      per_million |-> rows[i].per_million,
                      metric_norm |-> norm, above_thr |-> AboveThr(norm, t)]
                ELSE [Country |-> rows[i].Country, count |-> rows[i].count,
                      metric_norm |-> norm, above_thr |-> AboveThr(norm, t)]]

\* the aggregated table of lines 76-100 (when no KeyError is raised)
AggregatedTable(d, ccol, scol, sel, pm, t) ==
    LET m == IF UsePopulation(d, pm) THEN "per_million" ELSE "count"
    IN  [cols |-> IF m = "per_million"
                  THEN <<"Country", "count", "population", "per_million",
                         "metric_norm", "above_thr">>
                  ELSE <<"Country", "count", "metric_norm", "above_thr">>,
         rows |-> Normalised(WithMetric(d, ccol, scol, sel, pm), m, t)]

(* ------------------------------- actions ------------------------------- *)

Init ==
    /\ pc = "start"
    /\ df = NoTable
    /\ country_col = None
    /\ status_col = None
    /\ status_vals = <<>>
    /\ selected_status = None
    /\ per_million = FALSE
    /\ thr = 0
    /\ country_count = NoTable
    /\ metric = None
    /\ maxv = NaN
    /\ rendered = {}
    /\ error = NoError

\* lines 11-49: the title, the uploaders, the two loads, the property select.
\* read_csv returns any header with no rows, or one of Schemas with up to
\* MaxRows rows
Load ==
    /\ pc = "start"
    /\ \/ \E h \in HeaderSeqs : df' = [cols |-> h, rows |-> <<>>]
       \/ \E h \in Schemas, n \in 1..MaxRows : df' \in TablesOf(h, n)
    /\ rendered' = {"title", "uploaders", "property_select"}
    /\ pc' = "prepare"
    /\ UNCHANGED <<country_col, status_col, status_vals, selected_status,
                   per_million, thr, country_count, metric, maxv, error>>

\* lines 36-37: a load raises (file not found, not parseable); the run ends
LoadFail ==
    /\ pc = "start"
    /\ rendered' = {"title", "uploaders", "exception"}
    /\ error' = [kind |-> "LoadError", columns |-> <<>>]
    /\ pc' = "crashed"
    /\ UNCHANGED <<df, country_col, status_col, status_vals, selected_status,
                   per_million, thr, country_count, metric, maxv>>

\* Resolve without st.stop(): the error is shown and the script goes on
ResolveNoStop ==
    /\ pc = "prepare"
    /\ country_col' = CountryCol(df.cols)
    /\ IF country_col' = None
       THEN /\ error' = [kind |-> "schema", columns |-> df.cols]
            /\ rendered' = rendered \cup {"error"}
       ELSE UNCHANGED <<error, rendered>>
    /\ status_col' = StatusCol(df.cols)
    /\ status_vals' = StatusValsOf(df, status_col')
    /\ pc' = "controls"
    /\ UNCHANGED <<df, selected_status, per_million, thr, country_count, metric, maxv>>

\* lines 53-63: the country column, or st.error and st.stop; the status column
Resolve ==
    /\ pc = "prepare"
    /\ country_col' = CountryCol(df.cols)
    /\ IF country_col' = None
       THEN /\ error' = [kind |-> "schema", columns |-> df.cols]
            /\ rendered' = rendered \cup {"error"}
            /\ pc' = "stopped"
            /\ UNCHANGED <<status_col, status_vals>>
       ELSE /\ status_col' = StatusCol(df.cols)
            /\ status_vals' = StatusValsOf(df, status_col')
            /\ pc' = "controls"
            /\ UNCHANGED <<error, rendered>>
    /\ UNCHANGED <<df, selected_status, per_million, thr, country_count, metric, maxv>>

\* lines 66-73: the sidebar controls and the values the user has set
Controls ==
    /\ pc = "controls"
    /\ selected_status' \in Range(status_vals)
    /\ per_million' \in BOOLEAN
    /\ thr' \in Thresholds
    /\ rendered' = rendered \cup {"controls"}
    /\ pc' = "aggregate"
    /\ UNCHANGED <<df, country_col, status_col, status_vals, country_count,
                   metric, maxv, error>>

\* lines 76-100: filter, count per country, per-million, normalise, threshold
Aggregate ==
    /\ pc = "aggregate"
    /\ IF RaisesKeyError(df, per_million)
       THEN /\ country_count' =
                   [cols |-> <<"Country", "count">>,
                    rows |-> GroupSize(WorkDf(df, status_col, selected_status), country_col)]
            /\ metric' = "count"
            /\ error' = [kind |-> "KeyError", columns |-> df.cols]
            /\ rendered' = rendered \cup {"exception"}
            /\ pc' = "crashed"
            /\ UNCHANGED maxv
       ELSE /\ country_count' = AggregatedTable(df, country_col, status_col,
                                                selected_status, per_million, thr)
            /\ metric' = IF UsePopulation(df, per_million) THEN "per_million" ELSE "count"
            /\ maxv' = SeriesMax(Filled(WithMetric(df, country_col, status_col,
                                                   selected_status, per_million), metric'))
            /\ pc' = "tabs"
            /\ UNCHANGED <<error, rendered>>
    /\ UNCHANGED <<df, country_col, status_col, status_vals, selected_status,
                   per_million, thr>>

\* lines 103-183: the map, the ranking, the table with its download, the help
Tabs ==
    /\ pc = "tabs"
    /\ rendered' = rendered \cup {"map", "ranking", "table", "download", "about"}
    /\ pc' = "done"
    /\ UNCHANGED <<df, country_col, status_col, status_vals, selected_status,
                   per_million, thr, country_count, metric, maxv, error>>

\* an interaction: Streamlit runs the script again from its first line
Rerun ==
    /\ pc \in {"done", "stopped", "crashed"}
    /\ pc' = "start"
    /\ df' = NoTable
    /\ country_col' = None
    /\ status_col' = None
    /\ status_vals' = <<>>
    /\ selected_status' = None
    /\ per_million' = FALSE
    /\ thr' = 0
    /\ country_count' = NoTable
    /\ metric' = None
    /\ maxv' = NaN
    /\ rendered' = {}
    /\ error' = NoError

Next == Load \/ LoadFail \/ Resolve \/ Controls \/ Aggregate \/ Tabs \/ Rerun

Spec == Init /\ [][Next]_vars

(* ------------------------------- claims -------------------------------- *)

\* the run has passed schema resolution (line 57)
Resolved ==
    \/ pc \in {"controls", "aggregate", "tabs", "done", "stopped"}
    \/ pc = "crashed" /\ error.kind = "KeyError"

\* the run has computed the aggregated table (line 100)
Aggregated == pc \in {"tabs", "done"}

\* the run has left the aggregation, with the table or with an exception
AggregationEnded == Aggregated \/ (pc = "crashed" /\ error.kind = "KeyError")

HasPopulation == "population" \in Range(df.cols)

\* the rows of df that survive the status filter
Survivors ==
    {i \in DOMAIN df.rows :
        \/ "status" \notin Range(df.cols)
        \/ selected_status = "All"
        \/ df.rows[i]["status"] = selected_status}

RECURSIVE SumCount(_)
SumCount(rows) == IF rows = <<>> THEN 0 ELSE Head(rows).count + SumCount(Tail(rows))

\* 0 <= x <= 1 for a float x (false of NaN and the infinities)
InUnit(x) == x.k = "num" /\ 0 <= x.n /\ x.n <= x.d

\* the active-metric value of a row with nulls as 0
Active(row) ==
    IF metric = "per_million"
    THEN (IF row.per_million.k = "nan" THEN Whole(0) ELSE row.per_million)
    ELSE Whole(row.count)

\* x >= t/ThrDen for a float x and a slider position t in 0..ThrMax
AtLeast(x, t) ==
    CASE x.k = "nan" -> FALSE
      [] x.k = "inf" -> x.n > 0
      [] OTHER -> x.n >= x.d \/ (x.n >= 0 /\ x.n * ThrDen >= t * x.d)

\* the population of the first row of df whose country is c
FirstPopulation(c) ==
    LET first == CHOOSE i \in DOMAIN df.rows :
                    /\ df.rows[i][country_col] = c
                    /\ \A j \in DOMAIN df.rows : df.rows[j][country_col] = c => i <= j
    IN  df.rows[first]["population"]

\* df with its country column named "Country"
RenamedToCountry(d) ==
    [cols |-> [i \in DOMAIN d.cols |-> IF d.cols[i] = country_col THEN "Country" ELSE d.cols[i]],
     rows |-> [i \in DOMAIN d.rows |->
                  [c \in (DOMAIN d.rows[i] \ {country_col}) \cup {"Country"} |->
                      IF c = "Country" THEN d.rows[i][country_col] ELSE d.rows[i][c]]]]

\* C1: the counts of the aggregated table add up to the number of record rows
\* that survive the status filter, rows with a null country included.
C1_CountSumIsSurvivors ==
    Aggregated => SumCount(country_count.rows) = Cardinality(Survivors)

\* C2: every metric_norm lies in [0,1], and when the maximum of the active
\* metric is positive the row holding it has metric_norm 1, whatever the
\* populations are.
C2_NormInUnitInterval ==
    Aggregated =>
        \A i \in DOMAIN country_count.rows :
            LET row == country_count.rows[i]
            IN  /\ InUnit(row.metric_norm)
                /\ (FGt(maxv, Whole(0)) /\ Active(row) = maxv) => row.metric_norm = Whole(1)

\* C3: above_thr is true exactly when metric_norm >= threshold: true at
\* equality, false below.
C3_AboveThrIffAtLeast ==
    Aggregated =>
        \A i \in DOMAIN country_count.rows :
            country_count.rows[i].above_thr = AtLeast(country_count.rows[i].metric_norm, thr)

\* a row whose metric_norm equals a positive threshold, flagged above
C3_Witness ==
    /\ Aggregated
    /\ thr > 0
    /\ \E i \in DOMAIN country_count.rows :
           /\ country_count.rows[i].metric_norm = Num(thr, ThrDen)
           /\ country_count.rows[i].above_thr

\* C4: the country column is the first name of the candidate list that is
\* among the table's columns, whatever the order of the table's columns, and
\* the schema error is raised exactly when no candidate is among them.
C4_FirstCandidateWins ==
    Resolved =>
        LET present == {i \in DOMAIN possible_country_cols :
                           \E j \in DOMAIN df.cols : df.cols[j] = possible_country_cols[i]}
        IN  /\ (present = {}) = (pc = "stopped")
            /\ (present = {}) = (error.kind = "schema")
            /\ (present = {}) = (country_col = None)
            /\ present # {} =>
                   \E i \in present :
                       /\ country_col = possible_country_cols[i]
                       /\ \A j \in present : i <= j

\* "name" comes before "Country" in the table and "Country" is resolved
C4_Witness ==
    /\ pc = "controls"
    /\ Len(df.cols) >= 2
    /\ df.cols[1] = "name"
    /\ df.cols[2] = "Country"
    /\ country_col = "Country"

\* C5 as stated: after the schema error nothing but the error is rendered.
C5_OnlyErrorRendered == pc = "stopped" => rendered = {"error"}

\* C5 as amended: once the schema error is shown the run has stopped: the
\* error names the table's columns, the page holds the error and what was
\* rendered before schema resolution (title, uploaders, property select), and
\* no later step has run (no controls, no aggregated table, no tab).
C5_ErrorHaltsCycle ==
    "error" \in rendered =>
        /\ pc = "stopped"
        /\ error = [kind |-> "schema", columns |-> df.cols]
        /\ rendered = {"title", "uploaders", "property_select", "error"}
        /\ selected_status = None
        /\ country_count = NoTable

\* the run has stopped on a table whose columns hold no candidate
C5_Witness ==
    /\ pc = "stopped"
    /\ "error" \in rendered
    /\ Len(df.cols) > 0
    /\ country_col = None

\* C6: the aggregated table has exactly one row per country with a surviving
\* record: Country is unique, every count is at least 1, no country without a
\* surviving record appears.
C6_OneRowPerSurvivingCountry ==
    Aggregated =>
        LET rows == country_count.rows
        IN  /\ \A i, j \in DOMAIN rows : rows[i].Country = rows[j].Country => i = j
            /\ \A i \in DOMAIN rows : rows[i].count >= 1
            /\ {rows[i].Country : i \in DOMAIN rows} =
                   {df.rows[i][country_col] : i \in Survivors} \ {NULL}

\* C7: with per-capita on and a population column that has a missing or zero
\* cell, the aggregation raises no error, and a country whose population is
\* missing or zero has a null per_million and counts as 0 in the normalisation.
C7_MissingOrZeroPopulationIsNull ==
    (/\ AggregationEnded /\ per_million /\ HasPopulation
     /\ \E i \in DOMAIN df.rows : df.rows[i]["population"] \in {NaN, Whole(0)}) =>
        /\ pc # "crashed"
        /\ \A i \in DOMAIN country_count.rows :
               LET row == country_count.rows[i]
               IN  (row.population = NaN \/ row.population = Whole(0)) =>
                       /\ row.per_million = NaN
                       /\ row.metric_norm = Whole(0)

\* C8: when the maximum of the active metric is not positive (or the table
\* is empty), metric_norm is 0 in every row.
C8_NonPositiveMaxGivesZeroNorm ==
    (Aggregated /\ ~FGt(maxv, Whole(0))) =>
        \A i \in DOMAIN country_count.rows :
            country_count.rows[i].metric_norm = Whole(0)

\* C9: with per-capita on, each country is joined to exactly one population,
\* that of its first row in the unfiltered table.
C9_PopulationIsFirstOccurrence ==
    (Aggregated /\ per_million /\ HasPopulation) =>
        LET rows == country_count.rows
        IN  /\ \A i, j \in DOMAIN rows : rows[i].Country = rows[j].Country => i = j
            /\ \A i \in DOMAIN rows : rows[i].population = FirstPopulation(rows[i].Country)

\* C10: a table whose country column is named "name" is aggregated as the
\* same table with that column named "Country" is, and without an error.
C10_SameUnderRename ==
    (AggregationEnded /\ country_col = "name") =>
        /\ pc # "crashed"
        /\ country_count = AggregatedTable(RenamedToCountry(df), "Country", status_col,
                                           selected_status, per_million, thr)

====
